---------------------------- MODULE Spec2Model ----------------------------
(***************************************************************************)
(* A model of the file-compression Lambda of kwonjoosung/                  *)
(* file-compress-test-go.  The repository holds two builds of the handler: *)
(*   - src/main.go            one static S3 client, no delete, no queue;   *)
(*   - src/unnamed/part_001   per-region S3/SQS client maps, optional      *)
(*                            delete of the source, result sent to SQS.    *)
(* Strings whose structure the code inspects (object keys, file paths) are *)
(* sequences of one-character strings; opaque strings (regions, buckets,   *)
(* queue URLs, messages) are TLA+ strings, "" being Go's empty string.     *)
(***************************************************************************)
EXTENDS Integers, Sequences, FiniteSets, TLC

(***************************************************************************)
(* Go strings and the path/filepath functions the code calls (unix build). *)
(***************************************************************************)
Slash == "/"
Dot == "."

\* strings.HasSuffix
HasSuffix(s, suffix) ==
    /\ Len(s) >= Len(suffix)
    /\ SubSeq(s, Len(s) - Len(suffix) + 1, Len(s)) = suffix

\* strings.TrimSuffix
TrimSuffix(s, suffix) ==
    IF HasSuffix(s, suffix) THEN SubSeq(s, 1, Len(s) - Len(suffix)) ELSE s

\* Positions of path[i] scanned by filepath.Ext: from the end down to, and
\* not including, the last path separator.
LastSlash(path) ==
    LET idx == {i \in 1..Len(path) : path[i] = Slash}
    IN  IF idx = {} THEN 0 ELSE CHOOSE i \in idx : \A j \in idx : j <= i

\* filepath.Ext: the suffix beginning at the final dot of the final element.
Ext(path) ==
    LET dots == {i \in (LastSlash(path) + 1)..Len(path) : path[i] = Dot}
    IN  IF dots = {} THEN <<>>
        ELSE SubSeq(path, CHOOSE i \in dots : \A j \in dots : j <= i, Len(path))

RECURSIVE StripTrailingSlashes(_)
StripTrailingSlashes(path) ==
    IF Len(path) > 0 /\ path[Len(path)] = Slash
    THEN StripTrailingSlashes(SubSeq(path, 1, Len(path) - 1))
    ELSE path

\* filepath.Base
Base(path) ==
    IF path = <<>> THEN <<Dot>>
    ELSE LET p == StripTrailingSlashes(path)
             q == SubSeq(p, LastSlash(p) + 1, Len(p))
         IN  IF q = <<>> THEN <<Slash>> ELSE q

\* The elements of a path between its separators (empty ones included).
RECURSIVE Split(_)
Split(path) ==
    LET idx == {i \in 1..Len(path) : path[i] = Slash}
    IN  IF idx = {} THEN <<path>>
        ELSE LET i == CHOOSE k \in idx : \A j \in idx : k <= j
             IN  <<SubSeq(path, 1, i - 1)>> \o Split(SubSeq(path, i + 1, Len(path)))

RECURSIVE JoinElems(_)
JoinElems(elems) ==
    IF elems = <<>> THEN <<>>
    ELSE IF Len(elems) = 1 THEN elems[1]
    ELSE elems[1] \o <<Slash>> \o JoinElems(Tail(elems))

\* The element stack filepath.Clean builds: "" and "." dropped, ".." pops the
\* preceding element, is dropped at the root and kept at the start of a
\* relative path.
RECURSIVE CleanElems(_, _, _)
CleanElems(elems, out, rooted) ==
    IF elems = <<>> THEN out
    ELSE LET e == Head(elems)
             rest == Tail(elems)
         IN  IF e = <<>> \/ e = <<Dot>> THEN CleanElems(rest, out, rooted)
             ELSE IF e = <<Dot, Dot>>
                  THEN IF out # <<>> /\ out[Len(out)] # <<Dot, Dot>>
                       THEN CleanElems(rest, SubSeq(out, 1, Len(out) - 1), rooted)
                       ELSE IF rooted THEN CleanElems(rest, out, rooted)
                       ELSE CleanElems(rest, Append(out, e), rooted)
                  ELSE CleanElems(rest, Append(out, e), rooted)

\* filepath.Clean
Clean(path) ==
    IF path = <<>> THEN <<Dot>>
    ELSE LET rooted == path[1] = Slash
             body == JoinElems(CleanElems(Split(path), <<>>, rooted))
         IN  IF rooted THEN <<Slash>> \o body
             ELSE IF body = <<>> THEN <<Dot>> ELSE body

\* filepath.Join(a, b)
Join(a, b) ==
    IF a # <<>> THEN Clean(IF b = <<>> THEN a ELSE a \o <<Slash>> \o b)
    ELSE IF b # <<>> THEN Clean(b)
    ELSE <<>>

(***************************************************************************)
(* Program constants.                                                      *)
(***************************************************************************)
TempDir == <<"/", "t", "m", "p">>
CompressExtension == <<".", "7", "z">>
\* The region main.go's init() builds its one client for.
StaticRegion == "ap-northeast-2"
\* os.Getenv("AWS_REGION") in the running function.
LambdaRegion == "kr"


\* An error is the chain of messages fmt.Errorf("...: %w") builds, outermost
\* first; err.Error() is the chain.  nil is the empty chain.
Nil == <<>>
Err(msg) == <<msg>>
Wrap(msg, err) == <<msg>> \o err

(***************************************************************************)
(* Requests (FileCompressionForm) the invocations draw from.               *)
(***************************************************************************)
KeyEmpty == <<>>
KeyBin == <<"d", "/", "x", ".", "b">>
KeyArchive == <<"x", ".", "7", "z">>
KeyTarget == <<"t", ".", "7", "z">>

Regions == {"", LambdaRegion, "us", "eu", StaticRegion}

FileCompressionForm(uuids, oRegs, oBkts, oKeys, tRegs, tBkts, tKeys, dels, qRegs, qUrls) ==
    [ProcessUuid : uuids, OriginRegion : oRegs, OriginBucket : oBkts,
     OriginKey : oKeys, TargetRegion : tRegs, TargetBucket : tBkts,
     TargetKey : tKeys, DeleteOriginal : dels, QueueRegion : qRegs,
     QueueUrl : qUrls]

\* Requests of part_001's handler.
Requests ==
    FileCompressionForm({"", "p-1"}, {"", "us"}, {"", "b1"},
                        {KeyEmpty, KeyBin, KeyArchive}, {"", "eu"}, {"", "b2"},
                        {KeyEmpty, KeyTarget, KeyBin}, BOOLEAN, {"", "us"},
                        {"", "q"})

\* Requests of main.go's handler, whose form has the six origin/target
\* fields only (encoding/json drops the others).
RequestsMain ==
    FileCompressionForm({""}, {"", "us"}, {"", "b1"},
                        {KeyEmpty, KeyBin, KeyArchive}, {"", "eu"}, {"", "b2"},
                        {KeyEmpty, KeyTarget}, {FALSE}, {""}, {""})

(***************************************************************************)
(* Pure functions of the handlers.                                         *)
(***************************************************************************)
defaultIfEmpty(value, def) == IF value = "" THEN def ELSE value

\* defaultIfEmpty on a key (a character sequence).
defaultIfEmptyKey(value, def) == IF value = <<>> THEN def ELSE value

validateRequestNoSuffixCheck(event) ==
    IF event.OriginBucket = "" \/ event.OriginKey = <<>>
    THEN Err("origin bucket and key required")
    ELSE Nil

validateRequest(event) ==
    IF event.OriginBucket = "" \/ event.OriginKey = <<>>
    THEN Err("origin bucket and key required")
    ELSE IF HasSuffix(event.OriginKey, CompressExtension)
    THEN Err("file is already compressed")
    ELSE Nil

validateRequestMain(event) ==
    IF event.OriginBucket = "" THEN Err("origin bucket is required")
    ELSE IF event.OriginKey = <<>> THEN Err("origin key is required")
    ELSE IF HasSuffix(event.OriginKey, CompressExtension)
    THEN Err("cannot compress already compressed file (.7z)")
    ELSE Nil

\* replaceExtension without the branch that cuts the old extension off.
replaceExtensionAppendOnly(key, newExtension) == key \o newExtension

replaceExtension(key, newExtension) ==
    LET ext == Ext(key)
    IN  IF ext = <<>> THEN key \o newExtension
        ELSE SubSeq(key, 1, Len(key) - Len(ext)) \o newExtension

buildTempPaths(originKey) ==
    LET fileName == Base(originKey)
        base == TrimSuffix(fileName, Ext(fileName))
    IN  [inputPath |-> Join(TempDir, fileName),
         outputPath |-> Join(TempDir, base \o CompressExtension)]

CompressionResultData(result, message, uuid, region, bucket, key) ==
    [Result |-> result, Message |-> message, ProcessUuid |-> uuid,
     Region |-> region, Bucket |-> bucket, Key |-> key]

\* Go's zero value CompressionResultData{}.
ZeroResult == CompressionResultData("", <<>>, "", "", "", <<>>)

buildErrorResult(event, err) ==
    CompressionResultData("FAILED", err, event.ProcessUuid, event.OriginRegion,
                          event.OriginBucket, event.OriginKey)


(***************************************************************************)
(* File and object bodies.  data names the bytes of an original object     *)
(* (<<>>: no bytes); layers lists, outermost first, the entry names of the *)
(* 7z containers wrapped around them; stale says the outermost container   *)
(* also holds entries added by an earlier run of the tool.                 *)
(***************************************************************************)
Body(data, layers, stale) == [data |-> data, layers |-> layers, stale |-> stale]
EmptyBody == Body(<<>>, <<>>, FALSE)
ObjectBody(bucket, key) == Body(<<bucket>> \o key, <<>>, FALSE)
IsArchive(body) == body.layers # <<>>

\* "7za a -t7z -m0=Copy out in": a new container holding the one entry; an
\* existing container at out is updated (the entry of that name replaced,
\* other entries kept).
Archive(name, body) == Body(body.data, <<name>> \o body.layers, FALSE)
ArchiveInto(existing, name, body) ==
    Body(body.data, <<name>> \o body.layers,
         existing.stale \/ Head(existing.layers) # name)

\* A Go map as a function on the keys present.
MapPut(m, k, v) == [x \in DOMAIN m \cup {k} |-> IF x = k THEN v ELSE m[x]]
MapDelete(m, k) == [x \in DOMAIN m \ {k} |-> m[x]]
EmptyMap == [x \in {} |-> 0]


(***************************************************************************)
(* State.                                                                  *)
(***************************************************************************)
VARIABLES
    build,        \* which handler the process runs: "part_001" or "main"
    envS3Region,  \* DEFAULT_S3_REGION ("" when unset)
    envSQSRegion, \* DEFAULT_SQS_REGION ("" when unset)
    s3Clients,    \* part_001's s3Clients map: region -> client
    sqsClients,   \* part_001's sqsClients map: region -> client
    s3Client,     \* main.go's static client
    constructed,  \* clients built so far, per <<capability, region>>
    store,        \* the object store: <<bucket, key>> -> body
    queue,        \* messages the queue service accepted
    fs,           \* files under the temp directory: path -> body
    pc,           \* where each invocation stands
    event,        \* each invocation's request
    loc,          \* each invocation's local variables
    ret,          \* what each invocation's Handler returned
    calls,        \* each invocation's I/O, in order
    cleanups,     \* how many times each invocation ran cleanupTemp
    invocations,  \* invocations started in this process
    history       \* the invocations that returned, in order

vars == <<build, envS3Region, envSQSRegion, s3Clients, sqsClients, s3Client,
          constructed, store, queue, fs, pc, event, loc, ret, calls, cleanups,
          invocations, history>>

\* Invocations that may be in flight in the process at once.
MaxInFlight == 2
Slots == 1..MaxInFlight

Client(cap, region, id) == [cap |-> cap, region |-> region, id |-> id]
NilClient == Client("nil", "", 0)

\* One call to the world outside the handler, with the error it returned.
Call(op, region, bucket, key, err) ==
    [op |-> op, region |-> region, bucket |-> bucket, key |-> key, err |-> err]

getLambdaRegion == LambdaRegion

ZeroForm ==
    [ProcessUuid |-> "", OriginRegion |-> "", OriginBucket |-> "",
     OriginKey |-> <<>>, TargetRegion |-> "", TargetBucket |-> "",
     TargetKey |-> <<>>, DeleteOriginal |-> FALSE, QueueRegion |-> "",
     QueueUrl |-> ""]

ZeroLoc ==
    [originRegion |-> "", targetRegion |-> "", targetBucket |-> "",
     targetKey |-> <<>>, inputPath |-> <<>>, outputPath |-> <<>>,
     s3Client |-> NilClient, sqsClient |-> NilClient, result |-> ZeroResult,
     callRegion |-> "", callReturn |-> "", newClient |-> NilClient]

NoReturn == [result |-> ZeroResult, err |-> Nil]

\* The objects a request of the model may name as its source.
SourceObjects == {<<"b1", KeyBin>>, <<"b1", KeyArchive>>}

\* init() of part_001: one S3 and one SQS client, for the region the
\* environment names or else the function's own.
InitS3Region(env) == IF env = "" THEN getLambdaRegion ELSE env

InitProcess(envRegions, presents) ==
    /\ envS3Region \in envRegions
    /\ envSQSRegion \in envRegions
    /\ s3Clients = IF build = "part_001"
                   THEN MapPut(EmptyMap, InitS3Region(envS3Region),
                               Client("s3", InitS3Region(envS3Region), 1))
                   ELSE EmptyMap
    /\ sqsClients = IF build = "part_001"
                    THEN MapPut(EmptyMap, InitS3Region(envSQSRegion),
                                Client("sqs", InitS3Region(envSQSRegion), 1))
                    ELSE EmptyMap
    /\ s3Client = IF build = "main" THEN Client("s3", StaticRegion, 1) ELSE NilClient
    /\ constructed =
         [c \in {"s3", "sqs"} \X Regions |->
            IF build = "part_001"
            THEN IF c = <<"s3", InitS3Region(envS3Region)>>
                    \/ c = <<"sqs", InitS3Region(envSQSRegion)>> THEN 1 ELSE 0
            ELSE IF c = <<"s3", StaticRegion>> THEN 1 ELSE 0]
    /\ \E present \in presents :
         store = [o \in present |-> ObjectBody(o[1], o[2])]
    /\ queue = <<>>
    /\ fs = EmptyMap
    /\ pc = [i \in Slots |-> "idle"]
    /\ event = [i \in Slots |-> ZeroForm]
    /\ loc = [i \in Slots |-> ZeroLoc]
    /\ ret = [i \in Slots |-> NoReturn]
    /\ calls = [i \in Slots |-> <<>>]
    /\ cleanups = [i \in Slots |-> 0]
    /\ invocations = 0
    /\ history = <<>>

Init ==
    /\ build \in {"part_001", "main"}
    /\ InitProcess({"", "us"}, {{}, SourceObjects})


(***************************************************************************)
(* Steps shared by the handlers' actions.                                  *)
(***************************************************************************)
Log(i, cs) == calls' = [calls EXCEPT ![i] = @ \o cs]

\* What an invocation leaves behind as it returns to the runtime.
Returned(i, r, cs) ==
    [event |-> event[i], result |-> r.result, err |-> r.err, calls |-> cs,
     store |-> store]

\* A return statement before any defer was registered.
ReturnNow(i, result, err) ==
    /\ ret' = [ret EXCEPT ![i] = [result |-> result, err |-> err]]
    /\ pc' = [pc EXCEPT ![i] = "returned"]
    /\ history' = Append(history, Returned(i, [result |-> result, err |-> err],
                                           calls[i]))

\* ReturnDeferred with the defer statement left out of Handler.
ReturnDeferredWithoutDefer(i, result, err) == ReturnNow(i, result, err)

\* A return statement of Handler after the defer was registered: the values
\* are fixed, then the deferred cleanupTemp runs.
ReturnDeferred(i, result, err) ==
    /\ ret' = [ret EXCEPT ![i] = [result |-> result, err |-> err]]
    /\ pc' = [pc EXCEPT ![i] = "defer"]
    /\ UNCHANGED history

\* log.Fatalf: os.Exit(1); no deferred function runs and no invocation in
\* flight returns.
Fatal == pc' = [j \in Slots |-> IF pc[j] = "idle" THEN "idle" ELSE "exited"]

\* The process has not exited.
Alive == \A j \in Slots : pc[j] # "exited"

\* The maps are plain Go maps with no lock.  A write while another goroutine
\* is at a read or write of the same map is a data race: the runtime may
\* throw ("concurrent map writes"), which ends the process, or not.
MapWriteThrows(i, accesses) ==
    IF \E j \in Slots \ {i} : pc[j] \in accesses THEN BOOLEAN ELSE {FALSE}

\* A directory of the temp file system: os.Create on it fails.
IsDir(path) == path = TempDir \/ path = <<Slash>>

\* The Lambda runtime hands the process an event.
Invoke(i, e) ==
    /\ Alive
    /\ pc[i] \in {"idle", "returned"}
    /\ pc' = [pc EXCEPT ![i] = "validate"]
    /\ event' = [event EXCEPT ![i] = e]
    /\ loc' = [loc EXCEPT ![i] = ZeroLoc]
    /\ ret' = [ret EXCEPT ![i] = NoReturn]
    /\ calls' = [calls EXCEPT ![i] = <<>>]
    /\ cleanups' = [cleanups EXCEPT ![i] = 0]
    /\ invocations' = invocations + 1
    /\ UNCHANGED <<build, envS3Region, envSQSRegion, s3Clients, sqsClients,
                   s3Client, constructed, store, queue, fs, history>>

(***************************************************************************)
(* part_001: Handler, lines 81-154, one action per stage.                  *)
(***************************************************************************)
\* Lines 84-98: validation, defaulting, temp paths, the defer; then the call
\* getS3Client(originRegion) of line 101 begins.
Handler_Validate(i) ==
    /\ build = "part_001"
    /\ pc[i] = "validate"
    /\ LET err == validateRequest(event[i])
           originRegion == defaultIfEmpty(event[i].OriginRegion, getLambdaRegion)
           targetRegion == defaultIfEmpty(event[i].TargetRegion, originRegion)
           targetBucket == defaultIfEmpty(event[i].TargetBucket, event[i].OriginBucket)
           targetKey == defaultIfEmptyKey(event[i].TargetKey,
                            replaceExtension(event[i].OriginKey, CompressExtension))
           paths == buildTempPaths(event[i].OriginKey)
       IN  IF err # Nil
           THEN /\ ReturnNow(i, buildErrorResult(event[i], err), err)
                /\ UNCHANGED loc
           ELSE /\ loc' = [loc EXCEPT ![i] =
                     [@ EXCEPT !.originRegion = originRegion,
                               !.targetRegion = targetRegion,
                               !.targetBucket = targetBucket,
                               !.targetKey = targetKey,
                               !.inputPath = paths.inputPath,
                               !.outputPath = paths.outputPath,
                               !.callRegion = originRegion,
                               !.callReturn = "download"]]
                /\ pc' = [pc EXCEPT ![i] = "s3Lookup"]
                /\ UNCHANGED <<ret, history>>
    /\ UNCHANGED <<build, envS3Region, envSQSRegion, s3Clients, sqsClients,
                   s3Client, constructed, store, queue, fs, event, calls,
                   cleanups, invocations>>

\* getS3Client, lines 327-329: the map lookup.
getS3Client_Lookup(i) ==
    /\ build = "part_001"
    /\ pc[i] = "s3Lookup"
    /\ Log(i, <<Call("getS3Client", loc[i].callRegion, "", <<>>, Nil)>>)
    /\ IF loc[i].callRegion \in DOMAIN s3Clients
       THEN /\ loc' = [loc EXCEPT ![i].s3Client = s3Clients[loc[i].callRegion]]
            /\ pc' = [pc EXCEPT ![i] = loc[i].callReturn]
       ELSE /\ pc' = [pc EXCEPT ![i] = "s3Create"]
            /\ UNCHANGED loc
    /\ UNCHANGED <<build, envS3Region, envSQSRegion, s3Clients, sqsClients,
                   s3Client, constructed, store, queue, fs, event, ret,
                   cleanups, invocations,
                   history>>

\* createS3Client, lines 310-316.
createS3Client(i) ==
    /\ build = "part_001"
    /\ pc[i] = "s3Create"
    /\ \E ok \in BOOLEAN :
         /\ Log(i, <<Call("createS3Client", loc[i].callRegion, "", <<>>,
                          IF ok THEN Nil ELSE Err("config"))>>)
         /\ IF ok
            THEN LET n == constructed[<<"s3", loc[i].callRegion>>] + 1
                 IN  /\ constructed' = [constructed EXCEPT ![<<"s3", loc[i].callRegion>>] = n]
                     /\ loc' = [loc EXCEPT ![i].newClient = Client("s3", loc[i].callRegion, n)]
                     /\ pc' = [pc EXCEPT ![i] = "s3Insert"]
            ELSE /\ Fatal
                 /\ UNCHANGED <<constructed, loc>>
    /\ UNCHANGED <<build, envS3Region, envSQSRegion, s3Clients, sqsClients,
                   s3Client, store, queue, fs, event, ret, cleanups, invocations,
                   history>>

\* getS3Client, lines 331-332: the map insert and the return.
getS3Client_Insert(i) ==
    /\ build = "part_001"
    /\ pc[i] = "s3Insert"
    /\ \E thrown \in MapWriteThrows(i, {"s3Lookup", "s3Insert"}) :
         IF thrown
         THEN /\ Fatal
              /\ UNCHANGED <<s3Clients, loc>>
         ELSE /\ s3Clients' = MapPut(s3Clients, loc[i].callRegion, loc[i].newClient)
              /\ loc' = [loc EXCEPT ![i].s3Client = loc[i].newClient]
              /\ pc' = [pc EXCEPT ![i] = loc[i].callReturn]
    /\ UNCHANGED <<build, envS3Region, envSQSRegion, sqsClients, s3Client,
                   constructed, store, queue, fs, event, ret, calls, cleanups,
                   invocations,
                   history>>


(***************************************************************************)
(* The stage functions.  Each is the set of outcomes its calls to the file *)
(* system, the object store, the archive tool or the queue can have: the   *)
(* error returned, the state left behind and the calls made.               *)
(***************************************************************************)
\* downloadFromS3 with the error of GetObject dropped instead of returned.
downloadFromS3IgnoringGetError(client, bucket, key, destPath) ==
    LET create(e) == Call("os.Create", "", "", destPath, e)
        get(e) == Call("GetObject", client.region, bucket, key, e)
        present == <<bucket, key>> \in DOMAIN store
        missing == Err(IF present THEN "RequestError" ELSE "NoSuchKey")
    IN  {[err |-> Wrap("failed to create temp file", Err("open")),
          fs |-> fs, calls |-> <<create(Err("open"))>>]}
        \cup
        (IF IsDir(destPath) THEN {}
         ELSE {[err |-> Nil,
                fs |-> MapPut(fs, destPath, EmptyBody),
                calls |-> <<create(Nil), get(missing)>>]}
              \cup
              (IF ~present THEN {}
               ELSE {[err |-> Nil,
                      fs |-> MapPut(fs, destPath, store[<<bucket, key>>]),
                      calls |-> <<create(Nil), get(Nil)>>]}))

\* part_001 downloadFromS3, lines 175-199 (main.go 159-183 reads the same,
\* with the static client).
downloadFromS3(client, bucket, key, destPath) ==
    LET create(e) == Call("os.Create", "", "", destPath, e)
        get(e) == Call("GetObject", client.region, bucket, key, e)
        present == <<bucket, key>> \in DOMAIN store
        missing == Err(IF present THEN "RequestError" ELSE "NoSuchKey")
    IN  {[err |-> Wrap("failed to create temp file", Err("open")),
          fs |-> fs, calls |-> <<create(Err("open"))>>]}
        \cup
        (IF IsDir(destPath) THEN {}
         ELSE {[err |-> Wrap("failed to get S3 object", missing),
                fs |-> MapPut(fs, destPath, EmptyBody),
                calls |-> <<create(Nil), get(missing)>>]}
              \cup
              (IF ~present THEN {}
               ELSE {[err |-> Wrap("failed to copy S3 data", Err("unexpected EOF")),
                      fs |-> MapPut(fs, destPath, EmptyBody),
                      calls |-> <<create(Nil), get(Err("unexpected EOF"))>>],
                     [err |-> Nil,
                      fs |-> MapPut(fs, destPath, store[<<bucket, key>>]),
                      calls |-> <<create(Nil), get(Nil)>>]}))

\* What a run of the archive tool that exits with status zero leaves at
\* outputPath; the empty set when no run can succeed (no input file, or a
\* file at outputPath that is not a container).
SevenZipOutputs(inputPath, outputPath) ==
    IF inputPath \notin DOMAIN fs THEN {}
    ELSE IF outputPath \notin DOMAIN fs
    THEN {MapPut(fs, outputPath, Archive(Base(inputPath), fs[inputPath]))}
    ELSE IF IsArchive(fs[outputPath])
    THEN {MapPut(fs, outputPath,
                 ArchiveInto(fs[outputPath], Base(inputPath), fs[inputPath]))}
    ELSE {}

\* The calls and file-system outcomes of compressFile, whose two builds
\* differ in their messages only: os.Stat of the binary, then the run.
SevenZip(inputPath, outputPath, notFound, failed) ==
    LET stat(e) == Call("os.Stat", "", "", <<>>, e)
        run(e) == Call("7za", "", "", outputPath, e)
    IN  {[err |-> notFound, fs |-> fs, calls |-> <<stat(Err("not exist"))>>],
         [err |-> failed, fs |-> fs,
          calls |-> <<stat(Nil), run(Err("exit status"))>>]}
        \cup
        {[err |-> Nil, fs |-> f, calls |-> <<stat(Nil), run(Nil)>>] :
            f \in SevenZipOutputs(inputPath, outputPath)}

\* part_001 compressFile, lines 202-216.
compressFile(inputPath, outputPath) ==
    SevenZip(inputPath, outputPath, Err("7za binary not found"),
             Wrap("7za error", Err("exit status")))

\* part_001 uploadToS3, lines 219-244 (main.go 211-237 reads the same, with
\* the static client).
uploadToS3(client, bucket, key, sourcePath) ==
    LET open(e) == Call("os.Open", "", "", sourcePath, e)
        stat(e) == Call("File.Stat", "", "", sourcePath, e)
        put(e) == Call("PutObject", client.region, bucket, key, e)
    IN  {[err |-> Wrap("failed to open source file", Err("open")),
          store |-> store, calls |-> <<open(Err("open"))>>]}
        \cup
        (IF sourcePath \notin DOMAIN fs THEN {}
         ELSE {[err |-> Wrap("failed to get file info", Err("stat")),
                store |-> store, calls |-> <<open(Nil), stat(Err("stat"))>>],
               [err |-> Wrap("failed to put S3 object", Err("RequestError")),
                store |-> store,
                calls |-> <<open(Nil), stat(Nil), put(Err("RequestError"))>>],
               [err |-> Nil,
                store |-> MapPut(store, <<bucket, key>>, fs[sourcePath]),
                calls |-> <<open(Nil), stat(Nil), put(Nil)>>]})

\* part_001 deleteFromS3, lines 246-252.
deleteFromS3(client, bucket, key) ==
    LET del(e) == Call("DeleteObject", client.region, bucket, key, e)
    IN  {[err |-> Err("RequestError"), store |-> store,
          calls |-> <<del(Err("RequestError"))>>],
         [err |-> Nil, store |-> MapDelete(store, <<bucket, key>>),
          calls |-> <<del(Nil)>>]}

\* cleanupTemp, part_001 lines 287-293 (main.go 249-255): os.Remove of each
\* path; a failure is logged and nothing else.  failed: the paths whose
\* removal fails.
cleanupTemp(paths, failed) ==
    [fs |-> [x \in DOMAIN fs \ ({paths[k] : k \in 1..Len(paths)} \ failed) |-> fs[x]],
     calls |-> [k \in 1..Len(paths) |->
                  Call("os.Remove", "", "", paths[k],
                       IF paths[k] \in failed THEN Err("remove")
                       ELSE IF paths[k] \in DOMAIN fs THEN Nil
                       ELSE Err("not exist"))]]

(***************************************************************************)
(* part_001: Handler, continued.                                           *)
(***************************************************************************)
\* Lines 101-108.
Handler_Download(i) ==
    /\ build = "part_001"
    /\ pc[i] = "download"
    /\ \E o \in downloadFromS3(loc[i].s3Client, event[i].OriginBucket,
                               event[i].OriginKey, loc[i].inputPath) :
         /\ fs' = o.fs
         /\ Log(i, o.calls)
         /\ IF o.err # Nil
            THEN ReturnDeferred(i, buildErrorResult(event[i], o.err), o.err)
            ELSE /\ pc' = [pc EXCEPT ![i] = "compress"]
                 /\ UNCHANGED <<ret, history>>
    /\ UNCHANGED <<build, envS3Region, envSQSRegion, s3Clients, sqsClients,
                   s3Client, constructed, store, queue, event, loc, cleanups,
                   invocations>>

\* Lines 110-119: the archive run, then the call getS3Client(targetRegion).
Handler_Compress(i) ==
    /\ build = "part_001"
    /\ pc[i] = "compress"
    /\ \E o \in compressFile(loc[i].inputPath, loc[i].outputPath) :
         /\ fs' = o.fs
         /\ Log(i, o.calls)
         /\ IF o.err # Nil
            THEN /\ ReturnDeferred(i, buildErrorResult(event[i], o.err), o.err)
                 /\ UNCHANGED loc
            ELSE /\ pc' = [pc EXCEPT ![i] = "s3Lookup"]
                 /\ loc' = [loc EXCEPT ![i].callRegion = loc[i].targetRegion,
                                       ![i].callReturn = "upload"]
                 /\ UNCHANGED <<ret, history>>
    /\ UNCHANGED <<build, envS3Region, envSQSRegion, s3Clients, sqsClients,
                   s3Client, constructed, store, queue, event, cleanups,
                   invocations>>

\* The success result of lines 137-144.
SuccessResult(i) ==
    CompressionResultData("SUCCEED", Err("Compression succeeded"),
                          event[i].ProcessUuid, loc[i].targetRegion,
                          loc[i].targetBucket, loc[i].targetKey)

\* Lines 120-129 and, when no delete is asked for, 137-147 up to the call of
\* sendResultToQueue.
Handler_Upload(i) ==
    /\ build = "part_001"
    /\ pc[i] = "upload"
    /\ \E o \in uploadToS3(loc[i].s3Client, loc[i].targetBucket,
                           loc[i].targetKey, loc[i].outputPath) :
         /\ store' = o.store
         /\ Log(i, o.calls)
         /\ IF o.err # Nil
            THEN /\ ReturnDeferred(i, buildErrorResult(event[i], o.err), o.err)
                 /\ UNCHANGED loc
            ELSE IF event[i].DeleteOriginal
            THEN /\ pc' = [pc EXCEPT ![i] = "delete"]
                 /\ UNCHANGED <<ret, loc, history>>
            ELSE /\ pc' = [pc EXCEPT ![i] = "sqsLookup"]
                 /\ loc' = [loc EXCEPT ![i].result = SuccessResult(i)]
                 /\ UNCHANGED <<ret, history>>
    /\ UNCHANGED <<build, envS3Region, envSQSRegion, s3Clients, sqsClients,
                   s3Client, constructed, queue, fs, event, cleanups,
                   invocations>>

\* Lines 129-147: the optional delete, whose error is only logged, and the
\* result; s3Client is the client line 119 assigned.
Handler_Delete(i) ==
    /\ build = "part_001"
    /\ pc[i] = "delete"
    /\ \E o \in deleteFromS3(loc[i].s3Client, event[i].OriginBucket,
                             event[i].OriginKey) :
         /\ store' = o.store
         /\ Log(i, o.calls)
    /\ pc' = [pc EXCEPT ![i] = "sqsLookup"]
    /\ loc' = [loc EXCEPT ![i].result = SuccessResult(i)]
    /\ UNCHANGED <<build, envS3Region, envSQSRegion, s3Clients, sqsClients,
                   s3Client, constructed, queue, fs, event, ret, cleanups,
                   invocations,
                   history>>

\* sendResultToQueue line 255 and getSQSClient, lines 336-338: the map lookup.
getSQSClient_Lookup(i) ==
    /\ build = "part_001"
    /\ pc[i] = "sqsLookup"
    /\ Log(i, <<Call("getSQSClient", event[i].QueueRegion, "", <<>>, Nil)>>)
    /\ IF event[i].QueueRegion \in DOMAIN sqsClients
       THEN /\ loc' = [loc EXCEPT ![i].sqsClient = sqsClients[event[i].QueueRegion]]
            /\ pc' = [pc EXCEPT ![i] = "send"]
       ELSE /\ pc' = [pc EXCEPT ![i] = "sqsCreate"]
            /\ UNCHANGED loc
    /\ UNCHANGED <<build, envS3Region, envSQSRegion, s3Clients, sqsClients,
                   s3Client, constructed, store, queue, fs, event, ret,
                   cleanups, invocations,
                   history>>

\* createSQSClient, lines 318-324.
createSQSClient(i) ==
    /\ build = "part_001"
    /\ pc[i] = "sqsCreate"
    /\ \E ok \in BOOLEAN :
         /\ Log(i, <<Call("createSQSClient", event[i].QueueRegion, "", <<>>,
                          IF ok THEN Nil ELSE Err("config"))>>)
         /\ IF ok
            THEN LET n == constructed[<<"sqs", event[i].QueueRegion>>] + 1
                 IN  /\ constructed' = [constructed EXCEPT ![<<"sqs", event[i].QueueRegion>>] = n]
                     /\ loc' = [loc EXCEPT ![i].newClient = Client("sqs", event[i].QueueRegion, n)]
                     /\ pc' = [pc EXCEPT ![i] = "sqsInsert"]
            ELSE /\ Fatal
                 /\ UNCHANGED <<constructed, loc>>
    /\ UNCHANGED <<build, envS3Region, envSQSRegion, s3Clients, sqsClients,
                   s3Client, store, queue, fs, event, ret, cleanups, invocations,
                   history>>

\* getSQSClient, lines 340-341: the map insert and the return.
getSQSClient_Insert(i) ==
    /\ build = "part_001"
    /\ pc[i] = "sqsInsert"
    /\ \E thrown \in MapWriteThrows(i, {"sqsLookup", "sqsInsert"}) :
         IF thrown
         THEN /\ Fatal
              /\ UNCHANGED <<sqsClients, loc>>
         ELSE /\ sqsClients' = MapPut(sqsClients, event[i].QueueRegion, loc[i].newClient)
              /\ loc' = [loc EXCEPT ![i].sqsClient = loc[i].newClient]
              /\ pc' = [pc EXCEPT ![i] = "send"]
    /\ UNCHANGED <<build, envS3Region, envSQSRegion, s3Clients, s3Client,
                   constructed, store, queue, fs, event, ret, calls, cleanups,
                   invocations,
                   history>>

\* sendResultToQueue with the error of SendMessage dropped instead of
\* returned.
sendResultToQueueIgnoringError(client, queueUrl, result) ==
    LET send(e) == Call("SendMessage", client.region, queueUrl, <<>>, e)
    IN  {[err |-> Nil, queue |-> queue,
          calls |-> <<send(Err("RequestError"))>>],
         [err |-> Nil,
          queue |-> Append(queue, [url |-> queueUrl, region |-> client.region,
                                   body |-> result]),
          calls |-> <<send(Nil)>>]}

\* sendResultToQueue, lines 256-264: json.Marshal of the result (which cannot
\* fail for this struct) and SendMessage.  The outcomes: the error returned
\* and the queue after the call.
sendResultToQueue(client, queueUrl, result) ==
    LET send(e) == Call("SendMessage", client.region, queueUrl, <<>>, e)
    IN  {[err |-> Err("RequestError"), queue |-> queue,
          calls |-> <<send(Err("RequestError"))>>],
         [err |-> Nil,
          queue |-> Append(queue, [url |-> queueUrl, region |-> client.region,
                                   body |-> result]),
          calls |-> <<send(Nil)>>]}

\* Lines 147-153.
Handler_Send(i) ==
    /\ build = "part_001"
    /\ pc[i] = "send"
    /\ \E o \in sendResultToQueue(loc[i].sqsClient, event[i].QueueUrl, loc[i].result) :
         /\ queue' = o.queue
         /\ Log(i, o.calls)
         /\ IF o.err # Nil
            THEN ReturnDeferred(i, buildErrorResult(event[i], o.err), o.err)
            ELSE ReturnDeferred(i, loc[i].result, Nil)
    /\ UNCHANGED <<build, envS3Region, envSQSRegion, s3Clients, sqsClients,
                   s3Client, constructed, store, fs, event, loc, cleanups,
                   invocations>>

\* The deferred call of line 98 (main.go 90-92), run as Handler returns.
Handler_Defer(i) ==
    /\ pc[i] = "defer"
    /\ LET paths == <<loc[i].inputPath, loc[i].outputPath>>
       IN  \E failed \in SUBSET ({paths[1], paths[2]} \cap DOMAIN fs) :
             LET o == cleanupTemp(paths, failed)
             IN  /\ fs' = o.fs
                 /\ Log(i, o.calls)
                 /\ history' = Append(history, Returned(i, ret[i], calls[i] \o o.calls))
    /\ cleanups' = [cleanups EXCEPT ![i] = @ + 1]
    /\ pc' = [pc EXCEPT ![i] = "returned"]
    /\ UNCHANGED <<build, envS3Region, envSQSRegion, s3Clients, sqsClients,
                   s3Client, constructed, store, queue, event, loc, ret,
                   invocations>>


(***************************************************************************)
(* main.go: Handler, lines 65-131, one action per stage.                   *)
(***************************************************************************)
\* main.go compressFile, lines 186-208.
compressFileMain(inputPath, outputPath) ==
    SevenZip(inputPath, outputPath, Err("7z binary not found at /var/task/7za"),
             Wrap("7za execution failed", Err("exit status")))

\* Lines 68-92: validation, the bucket and key defaults, temp paths, the defer.
HandlerMain_Validate(i) ==
    /\ build = "main"
    /\ pc[i] = "validate"
    /\ LET err == validateRequestMain(event[i])
           targetBucket == IF event[i].TargetBucket = "" THEN event[i].OriginBucket
                           ELSE event[i].TargetBucket
           targetKey == IF event[i].TargetKey = <<>>
                        THEN replaceExtension(event[i].OriginKey, CompressExtension)
                        ELSE event[i].TargetKey
           paths == buildTempPaths(event[i].OriginKey)
       IN  IF err # Nil
           THEN /\ ReturnNow(i, ZeroResult, Wrap("input validation failed", err))
                /\ UNCHANGED loc
           ELSE /\ loc' = [loc EXCEPT ![i] =
                     [@ EXCEPT !.targetBucket = targetBucket,
                               !.targetKey = targetKey,
                               !.inputPath = paths.inputPath,
                               !.outputPath = paths.outputPath]]
                /\ pc' = [pc EXCEPT ![i] = "download"]
                /\ UNCHANGED <<ret, history>>
    /\ UNCHANGED <<build, envS3Region, envSQSRegion, s3Clients, sqsClients,
                   s3Client, constructed, store, queue, fs, event, calls,
                   cleanups, invocations>>

\* Lines 94-101.
HandlerMain_Download(i) ==
    /\ build = "main"
    /\ pc[i] = "download"
    /\ \E o \in downloadFromS3(s3Client, event[i].OriginBucket,
                               event[i].OriginKey, loc[i].inputPath) :
         /\ fs' = o.fs
         /\ Log(i, o.calls)
         /\ IF o.err # Nil
            THEN ReturnDeferred(i, ZeroResult, Wrap("download from S3 failed", o.err))
            ELSE /\ pc' = [pc EXCEPT ![i] = "compress"]
                 /\ UNCHANGED <<ret, history>>
    /\ UNCHANGED <<build, envS3Region, envSQSRegion, s3Clients, sqsClients,
                   s3Client, constructed, store, queue, event, loc, cleanups,
                   invocations>>

\* Lines 103-109.
HandlerMain_Compress(i) ==
    /\ build = "main"
    /\ pc[i] = "compress"
    /\ \E o \in compressFileMain(loc[i].inputPath, loc[i].outputPath) :
         /\ fs' = o.fs
         /\ Log(i, o.calls)
         /\ IF o.err # Nil
            THEN ReturnDeferred(i, ZeroResult, Wrap("file compression failed", o.err))
            ELSE /\ pc' = [pc EXCEPT ![i] = "upload"]
                 /\ UNCHANGED <<ret, history>>
    /\ UNCHANGED <<build, envS3Region, envSQSRegion, s3Clients, sqsClients,
                   s3Client, constructed, store, queue, event, loc, cleanups,
                   invocations>>

\* The success result of lines 124-130.
SuccessResultMain(i) ==
    CompressionResultData("SUCCEED", Err("Compression succeeded"), "",
                          event[i].TargetRegion, loc[i].targetBucket,
                          loc[i].targetKey)

\* Lines 111-130.
HandlerMain_Upload(i) ==
    /\ build = "main"
    /\ pc[i] = "upload"
    /\ \E o \in uploadToS3(s3Client, loc[i].targetBucket, loc[i].targetKey,
                           loc[i].outputPath) :
         /\ store' = o.store
         /\ Log(i, o.calls)
         /\ IF o.err # Nil
            THEN ReturnDeferred(i, ZeroResult, Wrap("upload to S3 failed", o.err))
            ELSE ReturnDeferred(i, SuccessResultMain(i), Nil)
    /\ UNCHANGED <<build, envS3Region, envSQSRegion, s3Clients, sqsClients,
                   s3Client, constructed, queue, fs, event, loc, cleanups,
                   invocations>>

(***************************************************************************)
(* Specifications.                                                         *)
(***************************************************************************)
\* One step of an invocation of part_001's handler.
StepPart001(i) ==
    \/ Handler_Validate(i)
    \/ getS3Client_Lookup(i)
    \/ createS3Client(i)
    \/ getS3Client_Insert(i)
    \/ Handler_Download(i)
    \/ Handler_Compress(i)
    \/ Handler_Upload(i)
    \/ Handler_Delete(i)
    \/ getSQSClient_Lookup(i)
    \/ createSQSClient(i)
    \/ getSQSClient_Insert(i)
    \/ Handler_Send(i)
    \/ Handler_Defer(i)

\* One step of an invocation of main.go's handler.
StepMain(i) ==
    \/ HandlerMain_Validate(i)
    \/ HandlerMain_Download(i)
    \/ HandlerMain_Compress(i)
    \/ HandlerMain_Upload(i)

RequestsOf(b) == IF b = "part_001" THEN Requests ELSE RequestsMain

\* Spec: one invocation, with any request, of a process of either build in
\* any state init() leaves.
InvokeOnce ==
    /\ invocations = 0
    /\ \E e \in RequestsOf(build) : Invoke(1, e)

Next == InvokeOnce \/ StepPart001(1) \/ StepMain(1)

Spec == Init /\ [][Next]_vars

\* SpecSeq: part_001's process serving up to MaxRuns invocations one after
\* the other, each with any valid request of SeqRequests.
MaxRuns == 2

SeqRequests ==
    FileCompressionForm({"p-1"}, {""}, {"b1"}, {KeyBin}, {"eu"}, {""},
                        {KeyEmpty, KeyTarget}, BOOLEAN, {""}, {"", "q"})

InitPart001 ==
    /\ build = "part_001"
    /\ InitProcess({""}, {SourceObjects})

InvokeSeq ==
    /\ invocations < MaxRuns
    /\ \E e \in SeqRequests : Invoke(1, e)

NextSeq == InvokeSeq \/ StepPart001(1)

SpecSeq == InitPart001 /\ [][NextSeq]_vars

\* SpecConc: part_001's process with up to MaxInFlight invocations in flight
\* at once, their steps interleaved in any order.
ConcRequests ==
    FileCompressionForm({"p-1"}, {"eu"}, {"b1"}, {KeyBin}, {""}, {""},
                        {KeyEmpty}, BOOLEAN, {"eu"}, {""})

InvokeConc ==
    \E i \in Slots :
        /\ pc[i] = "idle"
        /\ \E e \in ConcRequests : Invoke(i, e)

NextConc == InvokeConc \/ \E i \in Slots : StepPart001(i)

SpecConc == InitPart001 /\ [][NextConc]_vars

\* SpecScratch: as SpecConc, for invocations whose source keys are different
\* objects with the same basename: "d/x.b" for the first, "x.b" for the
\* others.
KeyFlat == <<"x", ".", "b">>

ScratchObjects == {<<"b1", KeyBin>>, <<"b1", KeyFlat>>}

ScratchKey(i) == IF i = 1 THEN KeyBin ELSE KeyFlat

ScratchRequests(i) ==
    FileCompressionForm({"p-1"}, {"eu"}, {"b1"}, {ScratchKey(i)}, {""}, {""},
                        {KeyEmpty}, BOOLEAN, {"eu"}, {""})

InitScratch ==
    /\ build = "part_001"
    /\ InitProcess({""}, {ScratchObjects})

InvokeScratch ==
    \E i \in Slots :
        /\ pc[i] = "idle"
        /\ \E e \in ScratchRequests(i) : Invoke(i, e)

NextScratch == InvokeScratch \/ \E i \in Slots : StepPart001(i)

SpecScratch == InitScratch /\ [][NextScratch]_vars

\* SpecKeys: the first step of either handler (validation, defaults and temp
\* paths) on one request whose origin key is any string of at most MaxKeyLen
\* characters over KeyAlphabet, with no target key given.
MaxKeyLen == 5

KeyAlphabet == {"/", ".", "x", "7", "z"}

OriginKeys == UNION {[1..n -> KeyAlphabet] : n \in 0..MaxKeyLen}

KeyRequests ==
    FileCompressionForm({""}, {""}, {"b1"}, OriginKeys, {""}, {""}, {KeyEmpty},
                        {FALSE}, {""}, {""})

InitKeys ==
    /\ build \in {"part_001", "main"}
    /\ InitProcess({""}, {{}})

InvokeKeys ==
    /\ invocations = 0
    /\ \E e \in KeyRequests : Invoke(1, e)

NextKeys == InvokeKeys \/ Handler_Validate(1) \/ HandlerMain_Validate(1)

SpecKeys == InitKeys /\ [][NextKeys]_vars


(***************************************************************************)
(* Vocabulary of the properties.                                           *)
(***************************************************************************)
\* The request is one validation must refuse: no bucket, no key, or a key
\* whose last three characters are ".7z".
Malformed(e) ==
    \/ e.OriginBucket = ""
    \/ Len(e.OriginKey) = 0
    \/ /\ Len(e.OriginKey) >= 3
       /\ e.OriginKey[Len(e.OriginKey) - 2] = "."
       /\ e.OriginKey[Len(e.OriginKey) - 1] = "7"
       /\ e.OriginKey[Len(e.OriginKey)] = "z"

InvalidRequestErrors ==
    {Err("origin bucket and key required"), Err("file is already compressed")}
    \cup {Wrap("input validation failed", Err(m)) :
            m \in {"origin bucket is required", "origin key is required",
                   "cannot compress already compressed file (.7z)"}}

\* Some call op in the trace cs returned without error / with an error.
Succeeded(cs, op) == \E k \in DOMAIN cs : cs[k].op = op /\ cs[k].err = Nil
Failed(cs, op) == \E k \in DOMAIN cs : cs[k].op = op /\ cs[k].err # Nil
Called(cs, ops) == \E k \in DOMAIN cs : cs[k].op \in ops

\* The defaults of the data model, written out from the request alone.
EffectiveOriginRegion(e) ==
    IF e.OriginRegion # "" THEN e.OriginRegion ELSE LambdaRegion
EffectiveTargetRegion(e) ==
    IF e.TargetRegion # "" THEN e.TargetRegion ELSE EffectiveOriginRegion(e)
EffectiveTargetBucket(e) ==
    IF e.TargetBucket # "" THEN e.TargetBucket ELSE e.OriginBucket
EffectiveTargetKey(e) ==
    IF e.TargetKey # <<>> THEN e.TargetKey
    ELSE replaceExtension(e.OriginKey, CompressExtension)

(***************************************************************************)
(* C1.  A request with an empty originBucket, an empty originKey or an     *)
(* originKey ending in ".7z" makes Handler return an invalid-request error *)
(* having done no I/O: its call trace is empty, cleanup never ran, no file *)
(* exists, no message was sent, no object was written and no client built  *)
(* beyond those of init().                                                 *)
(***************************************************************************)
C1_InvalidRequestNoIO ==
    \A i \in Slots :
        (pc[i] # "idle" /\ Malformed(event[i])) =>
            /\ pc[i] \in {"validate", "returned"}
            /\ calls[i] = <<>>
            /\ cleanups[i] = 0
            /\ DOMAIN fs = {}
            /\ queue = <<>>
            /\ DOMAIN store \subseteq SourceObjects
            /\ \A c \in DOMAIN constructed : constructed[c] <= 1
            /\ pc[i] = "returned" => ret[i].err \in InvalidRequestErrors

\* Handler has returned for a request with a bucket and a ".7z" key.
C1_Witness ==
    /\ pc[1] = "returned"
    /\ event[1].OriginBucket = "b1"
    /\ event[1].OriginKey = KeyArchive
    /\ ret[1].err \in InvalidRequestErrors
    /\ calls[1] = <<>>

(***************************************************************************)
(* C2.  With an empty queueUrl publishing is a no-op: no queue client is   *)
(* looked up or built, no send-message call is made, and a run whose       *)
(* download, archive and upload succeed returns a success result and a nil *)
(* error.  (Stated as claimed; part_001 sends whatever the address.)       *)
(***************************************************************************)
C2_EmptyQueueUrlPublishesNothing ==
    \A i \in Slots :
        event[i].QueueUrl = "" =>
            /\ ~Called(calls[i], {"getSQSClient", "createSQSClient", "SendMessage"})
            /\ (/\ pc[i] = "returned"
                /\ Succeeded(calls[i], "GetObject")
                /\ Succeeded(calls[i], "7za")
                /\ Succeeded(calls[i], "PutObject"))
               => (ret[i].err = Nil /\ ret[i].result.Result # "FAILED")

(***************************************************************************)
(* C3.  On every successful invocation the returned region, bucket and key *)
(* are those the put-object call used.  (Stated as claimed; main.go        *)
(* returns the request's targetRegion and writes through its one client.)  *)
(***************************************************************************)
C3_SuccessReturnsPutCoordinates ==
    \A i \in Slots :
        (pc[i] = "returned" /\ ret[i].err = Nil) =>
            \E k \in DOMAIN calls[i] :
                /\ calls[i][k].op = "PutObject"
                /\ calls[i][k].err = Nil
                /\ calls[i][k].region = ret[i].result.Region
                /\ calls[i][k].bucket = ret[i].result.Bucket
                /\ calls[i][k].key = ret[i].result.Key

\* C3 for part_001's handler alone.
C3_Part001 == build = "part_001" => C3_SuccessReturnsPutCoordinates

(***************************************************************************)
(* C4.  Whenever Handler returns a non-nil error, the result has code      *)
(* FAILED, a non-empty message, the request's process identifier and the   *)
(* request's origin region, bucket and key.  (Stated as claimed; main.go   *)
(* returns the zero result with every error.)                              *)
(***************************************************************************)
C4_ErrorCarriesFailedResult ==
    \A i \in Slots :
        (pc[i] = "returned" /\ ret[i].err # Nil) =>
            /\ ret[i].result.Result = "FAILED"
            /\ ret[i].result.Message # <<>>
            /\ ret[i].result.ProcessUuid = event[i].ProcessUuid
            /\ ret[i].result.Region = event[i].OriginRegion
            /\ ret[i].result.Bucket = event[i].OriginBucket
            /\ ret[i].result.Key = event[i].OriginKey

\* C4 for part_001's handler alone.
C4_Part001 == build = "part_001" => C4_ErrorCarriesFailedResult

(***************************************************************************)
(* C5.  The result code of every result Handler returns, and of every      *)
(* notification body sent, is SUCCEEDED or FAILED, and a run that returns  *)
(* no error returns SUCCEEDED.  (Stated as claimed; both handlers write    *)
(* "SUCCEED", and main.go returns an empty code with every error.)         *)
(***************************************************************************)
C5_ResultCodes ==
    /\ \A i \in Slots :
         pc[i] = "returned" =>
            /\ ret[i].result.Result \in {"SUCCEEDED", "FAILED"}
            /\ ret[i].err = Nil => ret[i].result.Result = "SUCCEEDED"
    /\ \A k \in DOMAIN queue : queue[k].body.Result \in {"SUCCEEDED", "FAILED"}

\* What the code does instead: "SUCCEED" with a nil error; with an error,
\* "FAILED" in part_001 and the empty code in main.go.
C5_CodesAsWritten ==
    /\ \A i \in Slots :
         pc[i] = "returned" =>
            ret[i].result.Result =
                IF ret[i].err = Nil THEN "SUCCEED"
                ELSE IF build = "part_001" THEN "FAILED" ELSE ""
    /\ \A k \in DOMAIN queue : queue[k].body.Result = "SUCCEED"

(***************************************************************************)
(* C6.  Every get-object goes through the client of the effective origin   *)
(* region (originRegion, else the function's region) for the origin bucket *)
(* and key; every put-object goes through the client of the effective      *)
(* target region (targetRegion, else the effective origin region) for the  *)
(* effective target bucket (targetBucket, else originBucket) and key       *)
(* (targetKey, else the origin key with its extension replaced by ".7z").  *)
(* (Stated as claimed; main.go has one client, for ap-northeast-2.)        *)
(***************************************************************************)
C6_EffectiveCoordinatesUsed ==
    \A i \in Slots : \A k \in DOMAIN calls[i] :
        LET c == calls[i][k]
            e == event[i]
        IN  /\ c.op = "GetObject" =>
                /\ c.region = EffectiveOriginRegion(e)
                /\ c.bucket = e.OriginBucket
                /\ c.key = e.OriginKey
            /\ c.op = "PutObject" =>
                /\ c.region = EffectiveTargetRegion(e)
                /\ c.bucket = EffectiveTargetBucket(e)
                /\ c.key = EffectiveTargetKey(e)

\* C6 for part_001's handler alone.
C6_Part001 == build = "part_001" => C6_EffectiveCoordinatesUsed

(***************************************************************************)
(* C7.  A failed delete of the source never fails the pipeline: a run with *)
(* deleteOriginal set whose download, archive and upload succeed, whose    *)
(* delete-object fails and whose publish, if a queue is configured,        *)
(* succeeds, reaches the notify step and returns the success result with   *)
(* the target coordinates and a nil error.  (Stated as claimed; with no    *)
(* queue configured part_001 still sends, C2, and fails when that fails.)  *)
(***************************************************************************)
DeleteFailedRun(i) ==
    /\ pc[i] = "returned"
    /\ event[i].DeleteOriginal
    /\ Succeeded(calls[i], "GetObject")
    /\ Succeeded(calls[i], "7za")
    /\ Succeeded(calls[i], "PutObject")
    /\ Failed(calls[i], "DeleteObject")

ReturnedSuccess(i) ==
    /\ ret[i].err = Nil
    /\ ret[i].result.Result \notin {"FAILED", ""}
    /\ ret[i].result.Region = EffectiveTargetRegion(event[i])
    /\ ret[i].result.Bucket = EffectiveTargetBucket(event[i])
    /\ ret[i].result.Key = EffectiveTargetKey(event[i])

C7_DeleteFailureNotFatal ==
    \A i \in Slots :
        (/\ DeleteFailedRun(i)
         /\ event[i].QueueUrl # "" => Succeeded(calls[i], "SendMessage"))
        => ReturnedSuccess(i)

\* C7 for the runs whose send-message succeeds, queue configured or not.
C7_WhenSendSucceeds ==
    \A i \in Slots :
        (DeleteFailedRun(i) /\ Succeeded(calls[i], "SendMessage"))
        => ReturnedSuccess(i)

(***************************************************************************)
(* C8.  Idempotence: two invocations in sequence with the same valid       *)
(* request and no queue configured, whatever deleteOriginal and the        *)
(* target, both return the success result with the same target             *)
(* coordinates, and the object store after the second is as it was after   *)
(* the first.  A run in which the file system, the archive tool or the     *)
(* object store failed for a reason of its own is no instance.  (Stated as *)
(* claimed; with no queue part_001 still sends, C2, and with               *)
(* deleteOriginal the first run removes what the second must read.)        *)
(***************************************************************************)
\* No file, tool or store call of the trace failed, other than a get-object
\* of an object that is not there.
StagesDidNotFail(cs) ==
    \A k \in DOMAIN cs :
        cs[k].op \in {"os.Create", "GetObject", "os.Stat", "7za", "os.Open",
                      "File.Stat", "PutObject", "DeleteObject"}
        => cs[k].err \in {Nil, Err("NoSuchKey")}

C8_Idempotent ==
    \A n \in 1..(Len(history) - 1) :
        LET first == history[n]
            second == history[n + 1]
        IN  (/\ first.event = second.event
             /\ ~Malformed(first.event)
             /\ first.event.QueueUrl = ""
             /\ StagesDidNotFail(first.calls)
             /\ StagesDidNotFail(second.calls))
            => /\ first.err = Nil
               /\ second.err = Nil
               /\ first.result.Result \notin {"FAILED", ""}
               /\ second.result = first.result
               /\ second.store = first.store

\* C8 for the runs that keep the source and whose send-message succeeds.
C8_WhenKeptAndSent ==
    \A n \in 1..(Len(history) - 1) :
        LET first == history[n]
            second == history[n + 1]
        IN  (/\ first.event = second.event
             /\ ~Malformed(first.event)
             /\ ~first.event.DeleteOriginal
             /\ StagesDidNotFail(first.calls)
             /\ StagesDidNotFail(second.calls)
             /\ Succeeded(first.calls, "SendMessage")
             /\ Succeeded(second.calls, "SendMessage"))
            => /\ first.err = Nil
               /\ second.err = Nil
               /\ second.result = first.result
               /\ second.store = first.store

(***************************************************************************)
(* C9.  Under any interleaving of concurrent invocations, at most one      *)
(* client per region and capability is ever constructed.  (Stated as       *)
(* claimed; getS3Client and getSQSClient take no lock between their lookup *)
(* and their insert.)                                                      *)
(***************************************************************************)
C9_OneClientPerRegion ==
    \A c \in DOMAIN constructed : constructed[c] <= 1

(***************************************************************************)
(* C10.  As claimed: on every path out of Handler, a validation failure    *)
(* included, cleanupTemp has run exactly once.                             *)
(***************************************************************************)
C10_CleanupOnEveryExit ==
    \A i \in Slots : pc[i] = "returned" => cleanups[i] = 1

(***************************************************************************)
(* C10, amended.  cleanupTemp runs exactly once on every path by which     *)
(* Handler returns after validation passed (download, archive, upload or   *)
(* publish failure, or success) and not at all when validation fails; it   *)
(* runs after the return values are fixed and changes neither the result   *)
(* nor the error, whether or not a removal fails.                          *)
(***************************************************************************)
CleanupRunsOf(i) == IF Malformed(event[i]) THEN 0 ELSE 1

C10_CleanupOncePerReturnAfterValidation ==
    /\ [](\A i \in Slots :
            /\ pc[i] = "returned" => cleanups[i] = CleanupRunsOf(i)
            /\ pc[i] \in {"validate", "s3Lookup", "s3Create", "s3Insert",
                          "download", "compress", "upload", "delete",
                          "sqsLookup", "sqsCreate", "sqsInsert", "send",
                          "defer"} => cleanups[i] = 0)
    /\ [][\A i \in Slots :
            pc[i] = "defer" /\ pc'[i] # "defer" =>
                /\ pc'[i] = "returned"
                /\ ret'[i] = ret[i]
                /\ cleanups'[i] = cleanups[i] + 1]_vars

\* Handler has returned success although a removal failed: a temp file of
\* the invocation is still there.
C10_Witness ==
    /\ pc[1] = "returned"
    /\ cleanups[1] = 1
    /\ ret[1].err = Nil
    /\ loc[1].outputPath \in DOMAIN fs
    /\ Failed(calls[1], "os.Remove")

(***************************************************************************)
(* C11.  Every object-store call of part_001's Handler goes through the    *)
(* client of the region the object lives in: get-object and delete-object  *)
(* of the source through the client of the effective origin region,        *)
(* put-object through the client of the effective target region, also when *)
(* the two regions differ.  (Stated as claimed; line 130 deletes through   *)
(* the client line 119 fetched for the target region.)                     *)
(***************************************************************************)
C11_RegionScopedClients ==
    \A i \in Slots :
        build = "part_001" =>
            \A k \in DOMAIN calls[i] :
                LET c == calls[i][k]
                IN  /\ c.op \in {"GetObject", "DeleteObject"}
                       => c.region = EffectiveOriginRegion(event[i])
                    /\ c.op = "PutObject"
                       => c.region = EffectiveTargetRegion(event[i])

\* C11 for get-object and put-object, and for delete-object when the two
\* regions are the same.
C11_GetPutAndSameRegionDelete ==
    \A i \in Slots :
        build = "part_001" =>
            \A k \in DOMAIN calls[i] :
                LET c == calls[i][k]
                IN  /\ c.op = "GetObject"
                       => c.region = EffectiveOriginRegion(event[i])
                    /\ c.op \in {"PutObject", "DeleteObject"}
                       => c.region = EffectiveTargetRegion(event[i])

(***************************************************************************)
(* C12.  A client construction failure for a region is fatal to the        *)
(* current invocation only and is not cached: the invocation ends in       *)
(* failure (it returns an error), the map is left without an entry for the *)
(* region, and the process stays able to serve further invocations, so     *)
(* that the next lookup of the region constructs again.  (Stated as        *)
(* claimed; createS3Client and createSQSClient call log.Fatalf, which      *)
(* exits the process.)                                                     *)
(***************************************************************************)
\* The construction calls of invocation i that failed.
FailedConstructions(i) ==
    {k \in DOMAIN calls[i] :
        /\ calls[i][k].op \in {"createS3Client", "createSQSClient"}
        /\ calls[i][k].err # Nil}

\* The keys of the map a construction call fills.
CachedRegions(op) ==
    IF op = "createS3Client" THEN DOMAIN s3Clients ELSE DOMAIN sqsClients

C12_ConstructionFailureFailsInvocationOnly ==
    \A i \in Slots : \A k \in FailedConstructions(i) :
        /\ Alive
        /\ pc[i] \in {"defer", "returned"}
        /\ ret[i].err # Nil
        /\ calls[i][k].region \notin CachedRegions(calls[i][k].op)

\* What the code does on a construction failure: nothing is cached, and the
\* process has exited with the invocation neither returned nor cleaned up.
C12_ConstructionFailureExitsProcess ==
    \A i \in Slots : \A k \in FailedConstructions(i) :
        /\ ~Alive
        /\ pc[i] = "exited"
        /\ ret[i] = NoReturn
        /\ cleanups[i] = 0
        /\ calls[i][k].region \notin CachedRegions(calls[i][k].op)

(***************************************************************************)
(* C13.  Within one invocation the stages run in the order download,       *)
(* archive, upload, optional delete, optional notify, and the first        *)
(* failing stage ends them: the archive tool is run only after get-object  *)
(* succeeded, put-object is called only after the archive run succeeded    *)
(* (a missing binary fails the run before any upload), delete-object and   *)
(* send-message only after put-object succeeded, and after a failed call   *)
(* of the download, archive or upload stage no store, archive or queue     *)
(* call follows.                                                           *)
(***************************************************************************)
\* Call k of the trace cs is preceded by a call of op that returned nil.
After(cs, k, op) ==
    \E j \in 1..(k - 1) : cs[j].op = op /\ cs[j].err = Nil

StagesInOrder(cs) ==
    \A k \in DOMAIN cs :
        /\ cs[k].op = "7za" => After(cs, k, "GetObject") /\ After(cs, k, "os.Stat")
        /\ cs[k].op = "PutObject" => After(cs, k, "7za")
        /\ cs[k].op = "DeleteObject" =>
              After(cs, k, "PutObject") /\ ~Called(SubSeq(cs, 1, k), {"SendMessage"})
        /\ cs[k].op = "SendMessage" => After(cs, k, "PutObject")
        /\ (/\ cs[k].op \in {"os.Create", "GetObject", "os.Stat", "7za",
                             "os.Open", "File.Stat", "PutObject"}
            /\ cs[k].err # Nil)
           => \A l \in (k + 1)..Len(cs) :
                cs[l].op \notin {"GetObject", "os.Stat", "7za", "PutObject",
                                 "DeleteObject", "getSQSClient", "SendMessage"}

C13_StagesInOrderFirstFailureEnds ==
    \A i \in Slots : StagesInOrder(calls[i])

\* An invocation has run all five stages and returned.
C13_Witness ==
    /\ pc[1] = "returned"
    /\ Succeeded(calls[1], "GetObject")
    /\ Succeeded(calls[1], "7za")
    /\ Succeeded(calls[1], "PutObject")
    /\ Called(calls[1], {"DeleteObject"})
    /\ Called(calls[1], {"SendMessage"})
    /\ StagesInOrder(calls[1])

(***************************************************************************)
(* C14.  When a queue address is configured and send-message fails,        *)
(* Handler returns a non-nil error with a FAILED result that carries the   *)
(* source coordinates, although the archive was already uploaded in that   *)
(* run (and the source possibly deleted).                                  *)
(***************************************************************************)
C14_SendFailurePropagates ==
    \A i \in Slots :
        (/\ event[i].QueueUrl # ""
         /\ Failed(calls[i], "SendMessage")
         /\ pc[i] \in {"defer", "returned"})
        => /\ ret[i].err = Err("RequestError")
           /\ ret[i].result = buildErrorResult(event[i], ret[i].err)
           /\ ret[i].result.Result = "FAILED"
           /\ ret[i].result.Bucket = event[i].OriginBucket
           /\ ret[i].result.Key = event[i].OriginKey
           /\ Succeeded(calls[i], "PutObject")

\* Handler has returned after a failed send to a configured queue, the
\* archive uploaded and the source deleted.
C14_Witness ==
    /\ pc[1] = "returned"
    /\ event[1].QueueUrl = "q"
    /\ Failed(calls[1], "SendMessage")
    /\ Succeeded(calls[1], "PutObject")
    /\ Succeeded(calls[1], "DeleteObject")
    /\ <<event[1].OriginBucket, event[1].OriginKey>> \notin DOMAIN store
    /\ ret[1].result.Result = "FAILED"

(***************************************************************************)
(* C15.  Each invocation has private scratch space: under any interleaving *)
(* of concurrent invocations, also of two whose source keys share a        *)
(* basename, the input file an invocation downloaded is there unchanged    *)
(* while it archives, the archive it built is there unchanged until it     *)
(* uploads, and what it uploads is the archive of the bytes it downloaded. *)
(* (Stated as claimed; buildTempPaths names the files by the basename      *)
(* alone.)                                                                 *)
(***************************************************************************)
\* The archive of the source object of invocation i and nothing else.
OwnArchive(i) ==
    Archive(Base(loc[i].inputPath),
            ObjectBody(event[i].OriginBucket, event[i].OriginKey))

C15_PrivateScratch ==
    \A i \in Slots :
        /\ pc[i] = "compress" =>
             /\ loc[i].inputPath \in DOMAIN fs
             /\ fs[loc[i].inputPath] =
                  ObjectBody(event[i].OriginBucket, event[i].OriginKey)
        /\ (pc[i] \in {"s3Lookup", "s3Create", "s3Insert", "upload"}
            /\ loc[i].callReturn = "upload") =>
             /\ loc[i].outputPath \in DOMAIN fs
             /\ fs[loc[i].outputPath] = OwnArchive(i)
        /\ Succeeded(calls[i], "PutObject") =>
             \/ <<loc[i].targetBucket, loc[i].targetKey>> \notin DOMAIN store
             \/ store[<<loc[i].targetBucket, loc[i].targetKey>>] = OwnArchive(i)

(***************************************************************************)
(* C16.  replaceExtension(key, newExt) is total and replaces only the      *)
(* final extension of the key's last path segment: with no dot in the last *)
(* segment the result is key followed by newExt, otherwise key up to, not  *)
(* including, the last dot of the last segment, followed by newExt;        *)
(* directory components, dots in them included, are kept.  Handler's       *)
(* default target key is that result for the ".7z" extension.              *)
(***************************************************************************)
\* Where the last segment of key begins: after its last '/'.
LastSegmentStart(key) ==
    IF \E k \in DOMAIN key : key[k] = "/"
    THEN 1 + CHOOSE k \in DOMAIN key :
                 key[k] = "/" /\ \A j \in (k + 1)..Len(key) : key[j] # "/"
    ELSE 1

\* The positions of the dots of the last segment.
SegmentDots(key) == {k \in LastSegmentStart(key)..Len(key) : key[k] = "."}

\* The extensions replaceExtension is asked to put in.
NewExtensions == {CompressExtension, <<>>, <<".", "x">>}

ExtensionReplaced(key, newExt, out) ==
    /\ Len(out) >= Len(newExt)
    /\ SubSeq(out, Len(out) - Len(newExt) + 1, Len(out)) = newExt
    /\ LET kept == SubSeq(out, 1, Len(out) - Len(newExt))
       IN  /\ SegmentDots(key) = {} => kept = key
           /\ SegmentDots(key) # {} =>
                /\ Len(kept) + 1 \in SegmentDots(key)
                /\ \A d \in SegmentDots(key) : d <= Len(kept) + 1
                /\ kept = SubSeq(key, 1, Len(kept))
           /\ Len(kept) >= LastSegmentStart(key) - 1
           /\ SubSeq(kept, 1, LastSegmentStart(key) - 1)
                = SubSeq(key, 1, LastSegmentStart(key) - 1)

C16_ReplaceExtensionFinalOnly ==
    \A i \in Slots :
        /\ \A newExt \in NewExtensions :
             ExtensionReplaced(event[i].OriginKey, newExt,
                               replaceExtension(event[i].OriginKey, newExt))
        /\ pc[i] \in {"s3Lookup", "download"} =>
             ExtensionReplaced(event[i].OriginKey, CompressExtension,
                               loc[i].targetKey)

\* Handler has defaulted the target key of "./7.z": the dot of the directory
\* is kept and ".z" is replaced.
C16_Witness ==
    /\ pc[1] \in {"s3Lookup", "download"}
    /\ event[1].OriginKey = <<".", "/", "7", ".", "z">>
    /\ loc[1].targetKey = <<".", "/", "7", ".", "7", "z">>

(***************************************************************************)
(* C17.  For every origin key that passes validateRequest the two paths of *)
(* buildTempPaths are distinct and both lie strictly inside the temp       *)
(* directory, so that the archive never overwrites the input.  (Stated as  *)
(* claimed; validateRequest looks at the end of the key, buildTempPaths at *)
(* filepath.Base of it, which drops trailing separators and may be ".",    *)
(* ".." or "/".)                                                           *)
(***************************************************************************)
\* path names something below TempDir.
StrictlyInsideTempDir(path) ==
    /\ Len(path) > Len(TempDir) + 1
    /\ SubSeq(path, 1, Len(TempDir) + 1) = TempDir \o <<"/">>

\* Invocation i has passed validation and computed its temp paths.
PathsBuilt(i) == pc[i] \in {"s3Lookup", "download"}

C17_TempPathsDistinctAndInside ==
    \A i \in Slots :
        PathsBuilt(i) =>
            /\ loc[i].inputPath # loc[i].outputPath
            /\ StrictlyInsideTempDir(loc[i].inputPath)
            /\ StrictlyInsideTempDir(loc[i].outputPath)

\* C17 for the keys that do not end in a separator and whose last segment is
\* neither "." nor "..".
C17_ForPlainFileNames ==
    \A i \in Slots :
        LET key == event[i].OriginKey
            segment == SubSeq(key, LastSegmentStart(key), Len(key))
        IN  (PathsBuilt(i) /\ segment \notin {<<>>, <<".">>, <<".", ".">>}) =>
                /\ loc[i].inputPath # loc[i].outputPath
                /\ StrictlyInsideTempDir(loc[i].inputPath)
                /\ StrictlyInsideTempDir(loc[i].outputPath)

(***************************************************************************)
(* C18.  Whenever a single invocation returns the success result, the      *)
(* object store holds the archive at the returned bucket and key at that   *)
(* moment, also when deleteOriginal is set and the request's target is its *)
(* origin.  (Stated as claimed; the delete of lines 128-135 follows the    *)
(* upload and removes what the upload wrote when the two are one object.)  *)
(***************************************************************************)
C18_SuccessMeansArchiveStored ==
    \A i \in Slots :
        (pc[i] = "returned" /\ ret[i].err = Nil) =>
            /\ <<ret[i].result.Bucket, ret[i].result.Key>> \in DOMAIN store
            /\ IsArchive(store[<<ret[i].result.Bucket, ret[i].result.Key>>])

\* C18 for the runs whose target is not their origin object.
C18_WhenTargetIsNotOrigin ==
    \A i \in Slots :
        (/\ pc[i] = "returned"
         /\ ret[i].err = Nil
         /\ <<ret[i].result.Bucket, ret[i].result.Key>>
              # <<event[i].OriginBucket, event[i].OriginKey>>) =>
            /\ <<ret[i].result.Bucket, ret[i].result.Key>> \in DOMAIN store
            /\ IsArchive(store[<<ret[i].result.Bucket, ret[i].result.Key>>])

(***************************************************************************)
(* C19.  Whenever Handler returns a FAILED result, which reports the       *)
(* source coordinates, that invocation has not deleted the source object:  *)
(* delete-object succeeds only in runs that end with the success result.   *)
(* (Stated as claimed; the send of lines 146-150 comes after the delete,   *)
(* and its failure turns the run into FAILED.)                             *)
(***************************************************************************)
C19_FailedRunKeepsSource ==
    \A i \in Slots :
        (pc[i] = "returned" /\ Succeeded(calls[i], "DeleteObject")) =>
            /\ ret[i].err = Nil
            /\ ret[i].result.Result # "FAILED"

\* The one way a run that deleted its source ends FAILED: its send-message
\* failed.
C19_UnlessSendFails ==
    \A i \in Slots :
        (/\ pc[i] = "returned"
         /\ Succeeded(calls[i], "DeleteObject")
         /\ ~Failed(calls[i], "SendMessage")) =>
            /\ ret[i].err = Nil
            /\ ret[i].result.Result # "FAILED"

=============================================================================
